---------------------------- MODULE Spec2Model ----------------------------
(***************************************************************************)
(* Quiz session of flashcard_arena (src/frontend/app.py).                  *)
(*                                                                         *)
(* The front end is a Streamlit script: every user interaction runs the    *)
(* on_click callback of the clicked button (if it has one) and then        *)
(* re-executes the script top to bottom against st.session_state.  The     *)
(* model keeps the session-state keys as variables under their source      *)
(* names, and the position of the script run in pc.                        *)
(*                                                                         *)
(* Strings are sequences of one-character strings, so that normalisation   *)
(* and the similarity ratio are computed, not assumed.                     *)
(***************************************************************************)
EXTENDS Integers, Sequences, FiniteSets, TLC

(***************************************************************************)
(* Bounds of the model.                                                    *)
(***************************************************************************)
MaxDeck == 2        \* longest deck that is loaded
MaxHistory == 3     \* scored events (correct, attempt, skip) per session

(***************************************************************************)
(* Characters and strings.                                                 *)
(***************************************************************************)
UpperChars == <<"A","B","C","D","E","F","G","H","I","J","K","L","M",
                "N","O","P","Q","R","S","T","U","V","W","X","Y","Z">>
LowerChars == <<"a","b","c","d","e","f","g","h","i","j","k","l","m",
                "n","o","p","q","r","s","t","u","v","w","x","y","z">>
DigitChars == {"0","1","2","3","4","5","6","7","8","9"}
SpaceChars == {" ", "\t", "\n"}

Range(s) == {s[i] : i \in 1..Len(s)}

\* str.lower() on one character
Lower(c) ==
    IF \E i \in 1..Len(UpperChars) : UpperChars[i] = c
    THEN LowerChars[CHOOSE i \in 1..Len(UpperChars) : UpperChars[i] = c]
    ELSE c

\* str.strip(): drop leading and trailing whitespace
Strip(s) ==
    LET keep == {i \in 1..Len(s) : s[i] \notin SpaceChars}
    IN  IF keep = {} THEN <<>>
        ELSE LET lo == CHOOSE i \in keep : \A j \in keep : i <= j
                 hi == CHOOSE i \in keep : \A j \in keep : i >= j
             IN  SubSeq(s, lo, hi)

\* re.sub(r"[^a-z0-9\s]", " ", s)
BlankOther(s) ==
    [i \in 1..Len(s) |->
        IF s[i] \in Range(LowerChars) \cup DigitChars \cup SpaceChars
        THEN s[i] ELSE " "]

\* re.sub(r"\s+", " ", s): every maximal run of whitespace becomes one space
\* (by halves: a run that spans the two halves is one run)
RECURSIVE CollapseSpaces(_)
CollapseSpaces(s) ==
    IF s = <<>> THEN <<>>
    ELSE IF Len(s) = 1
         THEN IF s[1] \in SpaceChars THEN <<" ">> ELSE s
         ELSE LET h == Len(s) \div 2
                  l == CollapseSpaces(SubSeq(s, 1, h))
                  r == CollapseSpaces(SubSeq(s, h + 1, Len(s)))
              IN  IF l[Len(l)] = " " /\ r[1] = " "
                  THEN l \o Tail(r) ELSE l \o r

\* _normalize: lower, strip, blank out other characters, collapse whitespace
_normalize(s) ==
    CollapseSpaces(BlankOther(Strip([i \in 1..Len(s) |-> Lower(s[i])])))

(***************************************************************************)
(* difflib.SequenceMatcher(None, a, b).ratio() for short strings (no       *)
(* junk, autojunk needs len(b) >= 200).                                    *)
(***************************************************************************)
\* find_longest_match over all of a and b: <<i, j, k>>, a[i..i+k-1] =
\* b[j..j+k-1]; longest, then earliest in a, then earliest in b.
FindLongestMatch(a, b) ==
    LET blocks == {t \in (1..Len(a)) \X (1..Len(b)) \X (1..Len(a)) :
                      /\ t[1] + t[3] - 1 <= Len(a)
                      /\ t[2] + t[3] - 1 <= Len(b)
                      /\ SubSeq(a, t[1], t[1] + t[3] - 1)
                            = SubSeq(b, t[2], t[2] + t[3] - 1)}
        Better(t, u) == \/ t[3] > u[3]
                        \/ t[3] = u[3] /\ t[1] < u[1]
                        \/ t[3] = u[3] /\ t[1] = u[1] /\ t[2] <= u[2]
    IN  IF blocks = {} THEN <<1, 1, 0>>
        ELSE CHOOSE t \in blocks : \A u \in blocks : Better(t, u)

\* sum of the sizes of get_matching_blocks(): the longest block, then the
\* same on the pieces to its left and to its right
RECURSIVE MatchingSize(_, _)
MatchingSize(a, b) ==
    IF a = <<>> \/ b = <<>> THEN 0
    ELSE LET m == FindLongestMatch(a, b)
         IN  IF m[3] = 0 THEN 0
             ELSE m[3]
                  + MatchingSize(SubSeq(a, 1, m[1] - 1), SubSeq(b, 1, m[2] - 1))
                  + MatchingSize(SubSeq(a, m[1] + m[3], Len(a)),
                                 SubSeq(b, m[2] + m[3], Len(b)))

MinFuzzyLen == 5        \* len(g) >= 5
RatioNum == 87          \* ratio() >= 0.87, as RatioNum / RatioDen
RatioDen == 100

\* ratio() >= 0.87 with ratio() = 2.0 * matches / (len(a) + len(b))
RatioAtLeast(a, b) ==
    2 * MatchingSize(a, b) * RatioDen >= RatioNum * (Len(a) + Len(b))

\* is_correct without normalisation: a bug that compares the raw strings
is_correct_raw(user, gold) ==
    IF user = <<>> \/ gold = <<>> THEN FALSE
    ELSE IF user = gold THEN TRUE
    ELSE Len(gold) >= MinFuzzyLen /\ RatioAtLeast(user, gold)

\* is_correct without the test for an exact match
is_correct_fuzzy_only(user, gold) ==
    LET u == _normalize(user)
        g == _normalize(gold)
    IN  IF u = <<>> \/ g = <<>> THEN FALSE
        ELSE Len(g) >= MinFuzzyLen /\ RatioAtLeast(u, g)

\* is_correct without the minimum length of the gold answer
is_correct_any_length(user, gold) ==
    LET u == _normalize(user)
        g == _normalize(gold)
    IN  IF u = <<>> \/ g = <<>> THEN FALSE
        ELSE IF u = g THEN TRUE
        ELSE RatioAtLeast(u, g)

is_correct(user, gold) ==
    LET u == _normalize(user)
        g == _normalize(gold)
    IN  IF u = <<>> \/ g = <<>> THEN FALSE
        ELSE IF u = g THEN TRUE
        ELSE Len(g) >= MinFuzzyLen /\ RatioAtLeast(u, g)

(***************************************************************************)
(* Cards, decks in the deck store, and the answers a user types.           *)
(***************************************************************************)
Str_capital    == <<"c","a","p","i","t","a","l">>
Str_pythagoras == <<"p","y","t","h","a","g","o","r","a","s">>
Str_cat        == <<"c","a","t">>
Str_Capital    == <<"C","a","p","i","t","a","l">>
Str_pithagoras == <<"p","i","t","h","a","g","o","r","a","s">>
Str_blank      == <<" ">>

Str_empty      == <<>>
Str_bang       == <<"!">>
Str_bat        == <<"b","a","t">>
Str_cats       == <<"c","a","t","s">>
Str_catss      == <<"c","a","t","s","s">>
Str_capitol    == <<"c","a","p","i","t","o","l">>
Str_capital_x  == <<" ","c","a","p","i","t","a","l","!">>
Str_the_cat    == <<"T","h","e"," "," ","c","a","t">>

\* the strings is_correct is called with, as user and as gold
MatchStrings ==
    {Str_empty, Str_blank, Str_bang, Str_cat, Str_bat, Str_cats, Str_catss,
     Str_the_cat, Str_capital, Str_Capital, Str_capitol, Str_capital_x,
     Str_pythagoras, Str_pithagoras}

Golds == <<Str_capital, Str_pythagoras, Str_cat>>

\* the question of the k-th card of the store, as text: k question marks
Question(k) == [i \in 1..k |-> "?"]

\* the k-th card of the store; card 1 is the spec's "Paris" card
CardAt(k) == [q |-> Question(k), a |-> Golds[((k - 1) % Len(Golds)) + 1]]

\* the stored deck of n cards: cards n, n-1, .., 1 (so that decks of
\* different lengths differ at every position)
Deck(n) == [i \in 1..n |-> CardAt(n + 1 - i)]
\* a stored file with a card whose answer is blank
Deck_blank == <<[q |-> Question(1), a |-> Str_blank]>>
Decks == {Deck(n) : n \in 0..MaxDeck} \cup {Deck_blank}

\* what the user may type into the answer box: blank, the exact answer of
\* card 1 in another case, the answer of card 2 with a typo
RawAnswers == {Str_blank, Str_Capital, Str_pithagoras}

NoIdx == -1                  \* None for quiz_last_idx
NoCtx == [deck |-> <<>>, pos |-> NoIdx]
NoEvent == [kind |-> "none"]

(***************************************************************************)
(* The basic cloze generator (backend/services/cards.py).                  *)
(***************************************************************************)
LetterChars == Range(UpperChars) \cup Range(LowerChars)
WordChars == LetterChars \cup {"'", "-"}
EndChars == {".", "!", "?"}

MinWordLen == 4             \* _WORD: one letter and {3,} more characters
MinSentenceLen == 20        \* 20 <= len(s.strip()) <= 240
MaxSentenceLen == 240
MinGoodLen == 6             \* len(c[0]) >= 6
Blank == <<"_","_","_","_","_">>

\* s[i:j] of Python, offsets from 0
Slice(s, i, j) == SubSeq(s, i + 1, j)

LowerStr(s) == [i \in 1..Len(s) |-> Lower(s[i])]

\* _clean: runs of whitespace become one space, then strip
_clean(text) == Strip(CollapseSpaces(text))

\* the length of the run of whitespace that starts at position i
SpaceRun(s, i) ==
    CHOOSE k \in 0..(Len(s) - i + 1) :
        /\ \A j \in i..(i + k - 1) : s[j] \in SpaceChars
        /\ i + k > Len(s) \/ s[i + k] \notin SpaceChars

\* _SENT_SPLIT.split: cut at every run of whitespace that follows . ! or ?
RECURSIVE SentSplit(_)
SentSplit(s) ==
    LET cuts == {i \in 2..Len(s) :
                    s[i] \in SpaceChars /\ s[i - 1] \in EndChars}
    IN  IF cuts = {} THEN <<s>>
        ELSE LET i == CHOOSE c \in cuts : \A d \in cuts : c <= d
             IN  <<SubSeq(s, 1, i - 1)>>
                 \o SentSplit(SubSeq(s, i + SpaceRun(s, i), Len(s)))

\* a sentence whose length is not in the window is dropped
SentenceLengthOk(s) == MinSentenceLen <= Len(s) /\ Len(s) <= MaxSentenceLen

_split_sentences(text) ==
    LET t == _clean(text)
        parts == SentSplit(t)
    IN  IF t = <<>> THEN <<>>
        ELSE SelectSeq([k \in 1..Len(parts) |-> Strip(parts[k])],
                       SentenceLengthOk)

\* the length of the run of word characters that starts at position i
WordRun(s, i) ==
    CHOOSE k \in 0..(Len(s) - i + 1) :
        /\ \A j \in i..(i + k - 1) : s[j] \in WordChars
        /\ i + k > Len(s) \/ s[i + k] \notin WordChars

\* _WORD.finditer from position i: the matches (m.group(0), m.start()),
\* leftmost first, each as long as it can be, none overlapping
RECURSIVE finditer(_, _)
finditer(s, i) ==
    IF i > Len(s) THEN <<>>
    ELSE IF s[i] \in LetterChars /\ WordRun(s, i) >= MinWordLen
         THEN <<[word |-> SubSeq(s, i, i + WordRun(s, i) - 1),
                 pos |-> i - 1]>>
              \o finditer(s, i + WordRun(s, i))
         ELSE finditer(s, i + 1)

StopWords ==
    {<<"t","h","i","s">>,
     <<"t","h","a","t">>,
     <<"w","i","t","h">>,
     <<"f","r","o","m">>,
     <<"w","h","i","c","h">>,
     <<"t","h","e","i","r">>,
     <<"t","h","e","r","e">>,
     <<"t","h","e","s","e">>,
     <<"t","h","o","s","e">>,
     <<"w","h","e","r","e">>,
     <<"a","f","t","e","r">>,
     <<"b","e","f","o","r","e">>,
     <<"b","e","c","a","u","s","e">>,
     <<"w","h","i","l","e">>}

\* sort(key=lambda t: (-len(t[0]), t[1])) and take the first
Longest(cs) ==
    CHOOSE c \in cs : \A d \in cs \ {c} :
        \/ Len(c.word) > Len(d.word)
        \/ Len(c.word) = Len(d.word) /\ c.pos < d.pos

\* _pick_mask_word: ("", -1) when the sentence has no candidate
_pick_mask_word(sentence) ==
    LET candidates == Range(finditer(sentence, 1))
        long_good == {c \in candidates :
                         /\ Len(c.word) >= MinGoodLen
                         /\ LowerStr(c.word) \notin StopWords}
    IN  IF candidates = {} THEN [word |-> <<>>, pos |-> -1]
        ELSE IF long_good # {} THEN Longest(long_good)
        ELSE Longest(candidates)

\* a card whose question loses the character after the word
ClozeCard_off_by_one(s, word, pos) ==
    [q |-> Strip(Slice(s, 0, pos) \o Blank
                 \o Slice(s, pos + Len(word) + 1, Len(s))),
     a |-> word]

\* the card made of sentence s, its word and the word's offset
ClozeCard(s, word, pos) ==
    [q |-> Strip(Slice(s, 0, pos) \o Blank
                 \o Slice(s, pos + Len(word), Len(s))),
     a |-> word]

\* the loop of generate_cards over the sentences left, cards made so far
RECURSIVE ClozeLoop(_, _, _)
ClozeLoop(sentences, n, made) ==
    IF sentences = <<>> THEN made
    ELSE LET s == Head(sentences)
             pick == _pick_mask_word(s)
             more == Append(made, ClozeCard(s, pick.word, pick.pos))
         IN  IF pick.word = <<>> THEN ClozeLoop(Tail(sentences), n, made)
             ELSE IF Len(more) >= n THEN more
             ELSE ClozeLoop(Tail(sentences), n, more)

\* generate_cards that takes the first n sentences, with or without a word
generate_cards_first_n(text, n) ==
    LET ss == _split_sentences(text)
    IN  ClozeLoop(SubSeq(ss, 1, IF n < Len(ss) THEN n ELSE Len(ss)),
                  n, <<>>)

generate_cards(text, n) == ClozeLoop(_split_sentences(text), n, <<>>)

\* request texts
\* one sentence; the longest word is masked
Text_cell ==
    <<"T","h","e"," ","m","i","t","o","c","h","o","n","d","r","i","a"," ","i",
      "s"," ","t","h","e"," ","p","o","w","e","r","h","o","u","s","e"," ","o",
      "f"," ","t","h","e"," ","c","e","l","l",".">>
\* only whitespace: rejected by the handler
Text_spaces == <<" "," "," ">>
\* no sentence of 20 characters: no card
Text_short == <<"H","i",".">>
\* two sentences, tabs and newlines, a hyphenated word
Text_two ==
    <<"P","a","r","i","s"," ","i","s"," ","t","h","e","\t","c","a","p","i",
      "t","a","l"," ","o","f"," ","F","r","a","n","c","e",".","\n","\n","R",
      "o","m","e"," ","i","s"," ","a"," ","w","e","l","l","-","k","n","o","w",
      "n"," ","c","i","t","y"," ","o","f"," ","I","t","a","l","y","!">>
\* the first sentence has no word of 4 letters
Text_nowords ==
    <<"I","t"," ","i","s"," ","s","o"," ","a","s"," ","w","e"," ","g","o"," ",
      "o","n"," ","t","o"," ","d","o"," ","i","t","."," ","P","a","r","i","s",
      " ","i","s"," ","t","h","e"," ","c","a","p","i","t","a","l"," ","o","f",
      " ","F","r","a","n","c","e",".">>
\* the longest word is a stop word
Text_stop ==
    <<"T","h","e","s","e"," ","t","h","i","n","g","s"," ","m","a","t","t","e",
      "r"," ","b","e","c","a","u","s","e"," ","p","e","o","p","l","e"," ","f",
      "o","r","g","e","t",".">>
\* no word of 6 letters: the longest of all, 5 letters
Text_there ==
    <<"T","h","i","s"," ","i","s"," ","w","h","a","t"," ","t","h","e","y"," ",
      "s","a","i","d"," ","t","h","e","r","e",".">>
\* sentences of 19 and of 20 characters
Text_edge ==
    <<"C","a","t","s"," ","c","h","a","s","e"," ","t","h","e"," ","m","i","x",
      "."," ","C","a","t","s"," ","c","h","a","s","e"," ","t","h","e"," ","m",
      "i","c","e","?">>
\* a sentence of 241 characters, then one of 20
Text_long ==
    [i \in 1..MaxSentenceLen |-> "a"] \o <<"."," ">>
    \o <<"C","a","t","s"," ","c","h","a","s","e"," ","t","h","e"," ",
         "m","i","c","e",".">>
\* a sentence of 240 characters
Text_limit == [i \in 1..(MaxSentenceLen - 1) |-> "a"] \o <<".">>

Texts == {Text_cell, Text_spaces, Text_short, Text_two, Text_nowords,
          Text_stop, Text_there, Text_edge, Text_long, Text_limit}

(***************************************************************************)
(* State.                                                                  *)
(***************************************************************************)
VARIABLES
    \* st.session_state (ensure_state)
    cards, mode, quiz_idx, quiz_reveal, quiz_correct, quiz_seen,
    quiz_history, quiz_answer, quiz_feedback, quiz_last_idx, quiz_clear,
    \* the script run
    pc,             \* "idle" (page shown, waiting for the user) or the
                    \* part of the script about to run
    event,          \* the button that is true in this run
    widget_made,    \* text_input(key="quiz_answer") exists in this run
    idx, total,     \* locals of render_quiz_mode, captured by the callbacks
    quiz_page,      \* the form and the five buttons are on the page
    \* history variables, for stating the properties only
    typed_for,      \* the card shown when the content of quiz_answer was typed
    dirty,          \* position or deck changed since the latest render
    moved,          \* this run's render found position or deck changed
    nclear,         \* times render emptied the input since the user event
    skips,          \* skips made since a load-deck, nothing else in between
    outcomes,       \* correct + attempt + skip events since load-deck / reset
    \* one POST /cards/generate in the backend (cards_generate)
    api_pc,         \* the part of cards_generate about to run
    payload,        \* the request body: text and n
    api_key,        \* os.getenv("OPENAI_API_KEY") is set and not empty
    completion,     \* what the chat completion call does for this request
    fallback_error, \* local of cards_generate: str(e) of the AI failure
    basic_cards,    \* local of cards_generate: the basic generator's cards
    response,       \* the HTTP response
    \* one call of is_correct
    m_user, m_gold, \* its arguments
    m_verdict       \* its value, "none" before the call

session == <<cards, mode, quiz_idx, quiz_reveal, quiz_correct, quiz_seen,
             quiz_history, quiz_answer, quiz_feedback, quiz_last_idx,
             quiz_clear>>
script  == <<pc, event, widget_made, idx, total, quiz_page>>
ghost   == <<typed_for, dirty, moved, nclear, skips, outcomes>>
backend == <<api_pc, payload, api_key, completion, fallback_error,
             basic_cards, response>>
matcher == <<m_user, m_gold, m_verdict>>
vars    == <<session, script, ghost, backend, matcher>>

Ctx == [deck |-> cards, pos |-> quiz_idx]

\* ensure_state on a new session; the script has run once in study mode
SessionInit ==
    /\ cards = <<>>
    /\ mode = "study"
    /\ quiz_idx = 0
    /\ quiz_reveal = FALSE
    /\ quiz_correct = 0
    /\ quiz_seen = 0
    /\ quiz_history = <<>>
    /\ quiz_answer = <<>>
    /\ quiz_feedback = ""
    /\ quiz_last_idx = NoIdx
    /\ quiz_clear = FALSE
    /\ pc = "idle"
    /\ event = NoEvent
    /\ widget_made = FALSE
    /\ idx = 0
    /\ total = 0
    /\ quiz_page = FALSE
    /\ typed_for = NoCtx
    /\ dirty = FALSE
    /\ moved = FALSE
    /\ nclear = 0
    /\ skips = -1
    /\ outcomes = 0

\* no response yet
NoResponse == [status |-> 0, cards |-> <<>>, mode |-> "<None>",
               fallback_error |-> "<None>", detail |-> <<>>]

\* no request is being served
BackendIdle ==
    /\ api_pc = "idle"
    /\ payload = [text |-> <<>>, n |-> 1]
    /\ api_key = FALSE
    /\ completion = [kind |-> "none", items |-> <<>>]
    /\ fallback_error = "<None>"
    /\ basic_cards = <<>>
    /\ response = NoResponse

\* no answer is being judged outside the quiz
MatcherIdle ==
    /\ m_user = <<>>
    /\ m_gold = <<>>
    /\ m_verdict = "none"

Init == SessionInit /\ BackendIdle /\ MatcherIdle

(***************************************************************************)
(* reset_quiz and load_deck_into_session.                                  *)
(*                                                                         *)
(* quiz_answer is the key of the text_input widget ("value owned by        *)
(* text_input", "clear input BEFORE rendering widget": app.py 99-103,      *)
(* 319-322).  Streamlit refuses an assignment to a widget's key once the   *)
(* widget exists in the running script: the assignment raises              *)
(* StreamlitAPIException, so the statements after it are not executed.     *)
(* made says whether the widget exists at the call.                        *)
(***************************************************************************)
\* reset_quiz that forgets quiz_idx
reset_quiz_keeps_idx(made) ==
    /\ UNCHANGED quiz_idx
    /\ quiz_reveal' = FALSE
    /\ quiz_correct' = 0
    /\ quiz_seen' = 0
    /\ quiz_history' = <<>>
    /\ IF made
       THEN UNCHANGED <<quiz_answer, quiz_feedback, quiz_last_idx,
                        quiz_clear, typed_for>>
       ELSE /\ quiz_answer' = <<>>
            /\ quiz_feedback' = ""
            /\ quiz_last_idx' = NoIdx
            /\ quiz_clear' = FALSE
            /\ typed_for' = NoCtx

reset_quiz(made) ==
    /\ quiz_idx' = 0
    /\ quiz_reveal' = FALSE
    /\ quiz_correct' = 0
    /\ quiz_seen' = 0
    /\ quiz_history' = <<>>
    /\ IF made
       THEN UNCHANGED <<quiz_answer, quiz_feedback, quiz_last_idx,
                        quiz_clear, typed_for>>
       ELSE /\ quiz_answer' = <<>>
            /\ quiz_feedback' = ""
            /\ quiz_last_idx' = NoIdx
            /\ quiz_clear' = FALSE
            /\ typed_for' = NoCtx

load_deck_into_session(deck, made) ==
    /\ cards' = deck
    /\ reset_quiz(made)

(***************************************************************************)
(* User events.  Each is taken on the idle page and starts a script run;   *)
(* a button with on_click runs its callback first.  st.rerun() inside a    *)
(* callback does nothing: the run that follows the callback is the rerun.  *)
(* The script above the mode dispatch (app.py 105-272) touches the quiz    *)
(* only in the sidebar's load handler, which is part of ClickLoad; with    *)
(* any other button the run arrives at the dispatch unchanged.             *)
(***************************************************************************)
StartRun(kind) ==
    /\ pc' = "render"
    /\ event' = [kind |-> kind]
    /\ widget_made' = FALSE
    /\ moved' = FALSE
    /\ nclear' = 0

\* st.selectbox("Mode", key="mode")
SelectMode(m) ==
    /\ pc = "idle"
    /\ UNCHANGED <<backend, matcher>>
    /\ m # mode
    /\ mode' = m
    /\ StartRun("mode")
    /\ UNCHANGED <<cards, quiz_idx, quiz_reveal, quiz_correct, quiz_seen,
                   quiz_history, quiz_answer, quiz_feedback, quiz_last_idx,
                   quiz_clear, idx, total, quiz_page, typed_for, dirty,
                   skips, outcomes>>

\* st.button("Load selected deck") in the sidebar (app.py 170-178); no
\* widget of the quiz exists yet in the run
ClickLoad(deck) ==
    /\ pc = "idle"
    /\ UNCHANGED <<backend, matcher>>
    /\ StartRun("load")
    /\ load_deck_into_session(deck, widget_made')
    /\ outcomes' = 0
    /\ skips' = IF deck # <<>> THEN 0 ELSE -1
    /\ dirty' = (dirty \/ cards' # cards \/ quiz_idx' # quiz_idx)
    /\ UNCHANGED <<mode, idx, total, quiz_page>>

\* st.form_submit_button("Check"): the form sends the content of the box
ClickCheck(raw) ==
    /\ pc = "idle"
    /\ UNCHANGED <<backend, matcher>>
    /\ quiz_page
    /\ Len(quiz_history) < MaxHistory \/ Strip(raw) = <<>>
    /\ quiz_answer' = raw
    /\ typed_for' = IF raw = quiz_answer THEN typed_for
                    ELSE IF raw = <<>> THEN NoCtx
                    ELSE [deck |-> cards, pos |-> idx]
    /\ skips' = -1
    /\ StartRun("submit")
    /\ UNCHANGED <<cards, mode, quiz_idx, quiz_reveal, quiz_correct,
                   quiz_seen, quiz_history, quiz_feedback, quiz_last_idx,
                   quiz_clear, idx, total, quiz_page, dirty, outcomes>>

\* st.button("Reset Deck")
ClickReset ==
    /\ pc = "idle"
    /\ UNCHANGED <<backend, matcher>>
    /\ quiz_page
    /\ skips' = -1
    /\ StartRun("reset")
    /\ UNCHANGED <<session, idx, total, quiz_page, typed_for, dirty,
                   outcomes>>

\* move_prev that stops at the first card instead of wrapping
move_prev_clamped ==
    /\ pc = "idle"
    /\ UNCHANGED <<backend, matcher>>
    /\ quiz_page
    /\ quiz_idx' = IF quiz_idx = 0 THEN 0 ELSE quiz_idx - 1
    /\ quiz_reveal' = FALSE
    /\ quiz_feedback' = ""
    /\ quiz_clear' = TRUE
    /\ skips' = -1
    /\ dirty' = (dirty \/ quiz_idx' # quiz_idx)
    /\ StartRun("prev")
    /\ UNCHANGED <<cards, mode, quiz_correct, quiz_seen, quiz_history,
                   quiz_answer, quiz_last_idx, idx, total, quiz_page,
                   typed_for, outcomes>>

move_prev ==
    /\ pc = "idle"
    /\ UNCHANGED <<backend, matcher>>
    /\ quiz_page
    /\ quiz_idx' = (quiz_idx - 1) % total
    /\ quiz_reveal' = FALSE
    /\ quiz_feedback' = ""
    /\ quiz_clear' = TRUE
    /\ skips' = -1
    /\ dirty' = (dirty \/ quiz_idx' # quiz_idx)
    /\ StartRun("prev")
    /\ UNCHANGED <<cards, mode, quiz_correct, quiz_seen, quiz_history,
                   quiz_answer, quiz_last_idx, idx, total, quiz_page,
                   typed_for, outcomes>>

\* reveal that records the reveal in the history
reveal_logged ==
    /\ pc = "idle"
    /\ UNCHANGED <<backend, matcher>>
    /\ quiz_page
    /\ quiz_feedback' = ""
    /\ quiz_reveal' = TRUE
    /\ quiz_history' = Append(quiz_history, [i |-> idx, result |-> "reveal"])
    /\ skips' = -1
    /\ StartRun("reveal")
    /\ UNCHANGED <<cards, mode, quiz_idx, quiz_correct, quiz_seen,
                   quiz_answer, quiz_last_idx, quiz_clear, idx, total,
                   quiz_page, typed_for, dirty, outcomes>>

reveal ==
    /\ pc = "idle"
    /\ UNCHANGED <<backend, matcher>>
    /\ quiz_page
    /\ quiz_feedback' = ""
    /\ quiz_reveal' = TRUE
    /\ skips' = -1
    /\ StartRun("reveal")
    /\ UNCHANGED <<cards, mode, quiz_idx, quiz_correct, quiz_seen,
                   quiz_history, quiz_answer, quiz_last_idx, quiz_clear,
                   idx, total, quiz_page, typed_for, dirty, outcomes>>

\* skip that scores the card as correct
skip_scored ==
    /\ pc = "idle"
    /\ UNCHANGED <<backend, matcher>>
    /\ quiz_page
    /\ Len(quiz_history) < MaxHistory
    /\ quiz_seen' = quiz_seen + 1
    /\ quiz_correct' = quiz_correct + 1
    /\ quiz_history' = Append(quiz_history, [i |-> idx, result |-> "skip"])
    /\ quiz_idx' = (idx + 1) % total
    /\ quiz_reveal' = FALSE
    /\ quiz_feedback' = ""
    /\ quiz_clear' = TRUE
    /\ skips' = IF skips >= 0 THEN skips + 1 ELSE -1
    /\ outcomes' = outcomes + 1
    /\ dirty' = (dirty \/ quiz_idx' # quiz_idx)
    /\ StartRun("skip")
    /\ UNCHANGED <<cards, mode, quiz_answer, quiz_last_idx, idx, total,
                   quiz_page, typed_for>>

skip ==
    /\ pc = "idle"
    /\ UNCHANGED <<backend, matcher>>
    /\ quiz_page
    /\ Len(quiz_history) < MaxHistory
    /\ quiz_seen' = quiz_seen + 1
    /\ quiz_history' = Append(quiz_history, [i |-> idx, result |-> "skip"])
    /\ quiz_idx' = (idx + 1) % total
    /\ quiz_reveal' = FALSE
    /\ quiz_feedback' = ""
    /\ quiz_clear' = TRUE
    /\ skips' = IF skips >= 0 THEN skips + 1 ELSE -1
    /\ outcomes' = outcomes + 1
    /\ dirty' = (dirty \/ quiz_idx' # quiz_idx)
    /\ StartRun("skip")
    /\ UNCHANGED <<cards, mode, quiz_correct, quiz_answer, quiz_last_idx,
                   idx, total, quiz_page, typed_for>>

move_next ==
    /\ pc = "idle"
    /\ UNCHANGED <<backend, matcher>>
    /\ quiz_page
    /\ quiz_idx' = (quiz_idx + 1) % total
    /\ quiz_reveal' = FALSE
    /\ quiz_feedback' = ""
    /\ quiz_clear' = TRUE
    /\ skips' = -1
    /\ dirty' = (dirty \/ quiz_idx' # quiz_idx)
    /\ StartRun("next")
    /\ UNCHANGED <<cards, mode, quiz_correct, quiz_seen, quiz_history,
                   quiz_answer, quiz_last_idx, idx, total, quiz_page,
                   typed_for, outcomes>>

(***************************************************************************)
(* The script run, in source order.                                        *)
(***************************************************************************)
\* the run is over: the page waits for the user
EndRun ==
    /\ pc' = "idle"
    /\ event' = NoEvent
    /\ moved' = FALSE
    /\ nclear' = 0

\* render_study_mode: the quiz widgets are not on the page
RenderStudy ==
    /\ pc = "render"
    /\ UNCHANGED <<backend, matcher>>
    /\ mode = "study"
    /\ quiz_page' = FALSE
    /\ idx' = 0
    /\ total' = 0
    /\ EndRun
    /\ UNCHANGED <<session, widget_made, typed_for, dirty, skips, outcomes>>

\* render_quiz_mode with no cards: returns at once
RenderQuizEmpty ==
    /\ pc = "render"
    /\ UNCHANGED <<backend, matcher>>
    /\ mode = "quiz"
    /\ cards = <<>>
    /\ quiz_page' = FALSE
    /\ idx' = 0
    /\ total' = 0
    /\ EndRun
    /\ UNCHANGED <<session, widget_made, typed_for, dirty, skips, outcomes>>

\* "If navigated to a NEW card" (app.py 307-311)
NewCard == quiz_last_idx # quiz_idx

\* the input is never emptied
ClearNow_never == FALSE

\* "Clear the input BEFORE creating the widget this run" (app.py 320-322)
ClearNow == NewCard \/ quiz_clear

\* render_quiz_mode up to and including the form (app.py 300-331)
RenderQuizHead ==
    /\ pc = "render"
    /\ UNCHANGED <<backend, matcher>>
    /\ mode = "quiz"
    /\ cards # <<>>
    /\ total' = Len(cards)
    /\ idx' = quiz_idx
    /\ IF NewCard
       THEN /\ quiz_reveal' = FALSE
            /\ quiz_feedback' = ""
            /\ quiz_last_idx' = quiz_idx
       ELSE UNCHANGED <<quiz_reveal, quiz_feedback, quiz_last_idx>>
    /\ IF ClearNow
       THEN /\ quiz_answer' = <<>>
            /\ typed_for' = NoCtx
            /\ nclear' = nclear + 1
       ELSE UNCHANGED <<quiz_answer, typed_for, nclear>>
    /\ quiz_clear' = FALSE
    /\ widget_made' = TRUE
    /\ moved' = dirty
    /\ dirty' = FALSE
    /\ pc' = "submit"
    /\ UNCHANGED <<cards, mode, quiz_idx, quiz_correct, quiz_seen,
                   quiz_history, event, quiz_page, skips, outcomes>>

\* a correct answer that forgets to count the card as seen
SubmitCorrect_unseen ==
    /\ quiz_feedback' = "correct"
    /\ quiz_correct' = quiz_correct + 1
    /\ quiz_history' = Append(quiz_history,
          [i |-> idx, result |-> "correct", user |-> quiz_answer])
    /\ quiz_idx' = (idx + 1) % total
    /\ quiz_clear' = TRUE
    /\ quiz_reveal' = FALSE
    /\ dirty' = (dirty \/ quiz_idx' # quiz_idx)
    /\ outcomes' = outcomes + 1
    /\ pc' = "render"
    /\ event' = NoEvent
    /\ widget_made' = FALSE
    /\ UNCHANGED quiz_seen

\* the answer is judged correct (app.py 337-345); st.rerun() ends the run
\* and starts the next one, in which no button is true
SubmitCorrect ==
    /\ quiz_feedback' = "correct"
    /\ quiz_correct' = quiz_correct + 1
    /\ quiz_seen' = quiz_seen + 1
    /\ quiz_history' = Append(quiz_history,
          [i |-> idx, result |-> "correct", user |-> quiz_answer])
    /\ quiz_idx' = (idx + 1) % total
    /\ quiz_clear' = TRUE
    /\ quiz_reveal' = FALSE
    /\ dirty' = (dirty \/ quiz_idx' # quiz_idx)
    /\ outcomes' = outcomes + 1
    /\ pc' = "render"
    /\ event' = NoEvent
    /\ widget_made' = FALSE

\* a wrong answer that counts the card as seen
SubmitIncorrect_seen ==
    /\ quiz_feedback' = "incorrect"
    /\ quiz_seen' = quiz_seen + 1
    /\ quiz_history' = Append(quiz_history,
          [i |-> idx, result |-> "attempt", user |-> quiz_answer])
    /\ outcomes' = outcomes + 1
    /\ pc' = "controls"
    /\ UNCHANGED <<quiz_correct, quiz_idx, quiz_clear, quiz_reveal, event,
                   widget_made, dirty>>

\* the answer is judged wrong (app.py 346-348)
SubmitIncorrect ==
    /\ quiz_feedback' = "incorrect"
    /\ quiz_history' = Append(quiz_history,
          [i |-> idx, result |-> "attempt", user |-> quiz_answer])
    /\ outcomes' = outcomes + 1
    /\ pc' = "controls"
    /\ UNCHANGED <<quiz_correct, quiz_seen, quiz_idx, quiz_clear,
                   quiz_reveal, event, widget_made, dirty>>

\* an empty answer treated as a wrong one
SubmitEmpty_incorrect ==
    /\ quiz_feedback' = "incorrect"
    /\ pc' = "controls"
    /\ UNCHANGED <<quiz_correct, quiz_seen, quiz_history, quiz_idx,
                   quiz_clear, quiz_reveal, event, widget_made, outcomes,
                   dirty>>

\* nothing but whitespace was sent: st.warning (app.py 349-350)
SubmitEmpty ==
    /\ pc' = "controls"
    /\ UNCHANGED <<quiz_feedback, quiz_correct, quiz_seen, quiz_history,
                   quiz_idx, quiz_clear, quiz_reveal, event, widget_made,
                   outcomes, dirty>>

\* "if submitted:" (app.py 333-350)
SubmitHandler ==
    /\ pc = "submit"
    /\ UNCHANGED <<backend, matcher>>
    /\ IF event.kind = "submit"
       THEN IF Strip(quiz_answer) # <<>>
            THEN IF is_correct(quiz_answer, cards[idx + 1].a)
                 THEN SubmitCorrect
                 ELSE SubmitIncorrect
            ELSE SubmitEmpty
       ELSE /\ pc' = "controls"
            /\ UNCHANGED <<quiz_feedback, quiz_correct, quiz_seen,
                           quiz_history, quiz_idx, quiz_clear, quiz_reveal,
                           event, widget_made, outcomes, dirty>>
    /\ UNCHANGED <<cards, mode, quiz_answer, quiz_last_idx, idx, total,
                   quiz_page, typed_for, moved, nclear, skips>>

\* the banner, the five buttons and "Reset Deck" (app.py 352-403).  The
\* text_input exists by now, so reset_quiz stops at its assignment to
\* quiz_answer and st.rerun() is not reached.
Controls ==
    /\ pc = "controls"
    /\ UNCHANGED <<backend, matcher>>
    /\ quiz_page' = TRUE
    /\ IF event.kind = "reset"
       THEN /\ reset_quiz(widget_made)
            /\ outcomes' = 0
            /\ dirty' = (dirty \/ quiz_idx' # quiz_idx)
            /\ IF widget_made
               THEN /\ EndRun
                    /\ UNCHANGED widget_made
               ELSE /\ pc' = "render"
                    /\ event' = NoEvent
                    /\ widget_made' = FALSE
                    /\ UNCHANGED <<moved, nclear>>
       ELSE /\ EndRun
            /\ UNCHANGED <<quiz_idx, quiz_reveal, quiz_correct, quiz_seen,
                           quiz_history, quiz_answer, quiz_feedback,
                           quiz_last_idx, quiz_clear, typed_for, outcomes,
                           widget_made, dirty>>
    /\ UNCHANGED <<cards, mode, idx, total, skips>>


(***************************************************************************)
(* The backend: POST /cards/generate (backend/app.py).                     *)
(*                                                                         *)
(* A JSON value of a card field is [t |-> "str", s |-> the text] or, for   *)
(* a number, null or a missing key, [t |-> "other", s |-> <<>>].  An item  *)
(* of the "cards" list is a dict or not.  A completion is what the chat    *)
(* completion call does: it raises, or its content is not JSON, or is not  *)
(* a JSON object, or has no list under "cards", or has a list of items.    *)
(***************************************************************************)
MaxN == 2           \* largest n requested (GenerateRequest allows 1..50)

None == "<None>"

Text(s) == [t |-> "str", s |-> s]
NotText == [t |-> "other", s |-> <<>>]
Item(q, a) == [dict |-> TRUE, q |-> q, a |-> a]
NotDict == [dict |-> FALSE, q |-> NotText, a |-> NotText]

Completion(kind, items) == [kind |-> kind, items |-> items]
NoCompletion == Completion("none", <<>>)

Item_sum == Item(Text(<<"2","+","2","?">>), Text(<<"4">>))
Item_rome == Item(Text(<<" ","I","t","a","l","y","?"," ">>),
                  Text(<<" ","R","o","m","e","\n">>))
Item_number == Item(Text(<<"2","+","3","?">>), NotText)
Item_blank == Item(Text(<<"1","+","1","?">>), Text(<<" "," ">>))

Completions ==
    {Completion("raise", <<>>),
     Completion("not json", <<>>),
     Completion("not object", <<>>),
     Completion("no list", <<>>),
     Completion("list", <<>>),
     Completion("list", <<NotDict, Item_number>>),
     Completion("list", <<Item_sum, Item_rome>>),
     Completion("list", <<NotDict, Item_number, Item_rome, Item_sum>>),
     Completion("list", <<Item_sum, Item_blank>>)}

\* the loop of generate_ai_cards over the items left (197-206)
RECURSIVE NormalizeLoop(_, _, _)
NormalizeLoop(items, n, normalized) ==
    IF items = <<>> THEN normalized
    ELSE LET item == Head(items)
             usable == item.dict /\ item.q.t = "str" /\ item.a.t = "str"
             more == IF usable
                     THEN Append(normalized, [q |-> Strip(item.q.s),
                                              a |-> Strip(item.a.s)])
                     ELSE normalized
         IN  IF item.dict /\ Len(more) >= n THEN more
             ELSE NormalizeLoop(Tail(items), n, more)

Raised(text) == [ok |-> FALSE, cards |-> <<>>, error |-> text]
Returned(cs) == [ok |-> TRUE, cards |-> cs, error |-> None]

\* generate_ai_cards: the cards, or the str() of the exception raised.  The
\* text of a failed call and of a JSON error vary; one text stands for each.
generate_ai_cards(c, n) ==
    IF c.kind = "raise" THEN Raised("Connection error.")
    ELSE IF c.kind = "not json" THEN Raised("Failed to parse AI JSON")
    ELSE IF c.kind = "not object"
    THEN Raised("'list' object has no attribute 'get'")
    ELSE IF c.kind = "no list"
    THEN Raised("AI response did not contain a 'cards' list")
    ELSE LET normalized == NormalizeLoop(c.items, n, <<>>)
         IN  IF normalized = <<>>
             THEN Raised("AI returned no usable flashcards")
             ELSE Returned(normalized)

GenerateResponse(cs, m, err) ==
    [status |-> 200, cards |-> cs, mode |-> m, fallback_error |-> err,
     detail |-> <<>>]
HTTPException(code, detail) ==
    [status |-> code, cards |-> <<>>, mode |-> None, fallback_error |-> None,
     detail |-> detail]

\* a request arrives: any text, any n, the key set or not, any completion
RequestInit ==
    /\ api_pc = "start"
    /\ payload \in [text : Texts, n : 1..MaxN]
    /\ api_key \in BOOLEAN
    /\ completion \in IF api_key THEN Completions ELSE {NoCompletion}
    /\ fallback_error = None
    /\ basic_cards = <<>>
    /\ response = NoResponse

\* the text after strip is required (219-221); then the branch on the key
CheckText ==
    /\ api_pc = "start"
    /\ IF Strip(payload.text) = <<>>
       THEN /\ response' = HTTPException(400, <<"text is required.">>)
            /\ api_pc' = "done"
       ELSE /\ api_pc' = IF api_key THEN "ai" ELSE "basic"
            /\ UNCHANGED response
    /\ UNCHANGED <<payload, api_key, completion, fallback_error, basic_cards>>
    /\ UNCHANGED <<session, script, ghost, matcher>>

\* without a key, a result even when the basic generator makes no card
BasicOnly_always_ok ==
    /\ api_pc = "basic"
    /\ basic_cards' = generate_cards(Strip(payload.text), payload.n)
    /\ response' =
         GenerateResponse(basic_cards', "basic", "No OPENAI_API_KEY set")
    /\ api_pc' = "done"
    /\ UNCHANGED <<payload, api_key, completion, fallback_error>>
    /\ UNCHANGED <<session, script, ghost, matcher>>

\* no key: the basic generator alone (223-235)
BasicOnly ==
    /\ api_pc = "basic"
    /\ basic_cards' = generate_cards(Strip(payload.text), payload.n)
    /\ response' =
         IF basic_cards' = <<>>
         THEN HTTPException(422,
                 <<"Could not generate cards from the provided text.">>)
         ELSE GenerateResponse(basic_cards', "basic", "No OPENAI_API_KEY set")
    /\ api_pc' = "done"
    /\ UNCHANGED <<payload, api_key, completion, fallback_error>>
    /\ UNCHANGED <<session, script, ghost, matcher>>

\* an AI attempt whose failure ends the request, with no fallback
TryAI_no_fallback ==
    /\ api_pc = "ai"
    /\ LET ai == generate_ai_cards(completion, payload.n)
       IN  IF ai.ok
           THEN /\ response' = GenerateResponse(ai.cards, "ai", None)
                /\ UNCHANGED fallback_error
           ELSE /\ fallback_error' = ai.error
                /\ response' = HTTPException(500,
                      <<"AI failed and fallback generator also failed: ",
                        ai.error>>)
    /\ api_pc' = "done"
    /\ UNCHANGED <<payload, api_key, completion, basic_cards>>
    /\ UNCHANGED <<session, script, ghost, matcher>>

\* the AI attempt: its cards are the response, or its exception is kept
\* (237-247)
TryAI ==
    /\ api_pc = "ai"
    /\ LET ai == generate_ai_cards(completion, payload.n)
       IN  IF ai.ok
           THEN /\ response' = GenerateResponse(ai.cards, "ai", None)
                /\ api_pc' = "done"
                /\ UNCHANGED fallback_error
           ELSE /\ fallback_error' = ai.error
                /\ api_pc' = "fallback"
                /\ UNCHANGED response
    /\ UNCHANGED <<payload, api_key, completion, basic_cards>>
    /\ UNCHANGED <<session, script, ghost, matcher>>

\* a fallback that does not report why the AI was not used
Fallback_silent ==
    /\ api_pc = "fallback"
    /\ basic_cards' = generate_cards(Strip(payload.text), payload.n)
    /\ response' =
         IF basic_cards' = <<>>
         THEN HTTPException(500,
                 <<"AI failed and fallback generator also failed: ",
                   fallback_error>>)
         ELSE GenerateResponse(basic_cards', "basic", None)
    /\ api_pc' = "done"
    /\ UNCHANGED <<payload, api_key, completion, fallback_error>>
    /\ UNCHANGED <<session, script, ghost, matcher>>

\* the basic generator after an AI failure (249-261)
Fallback ==
    /\ api_pc = "fallback"
    /\ basic_cards' = generate_cards(Strip(payload.text), payload.n)
    /\ response' =
         IF basic_cards' = <<>>
         THEN HTTPException(500,
                 <<"AI failed and fallback generator also failed: ",
                   fallback_error>>)
         ELSE GenerateResponse(basic_cards', "basic", fallback_error)
    /\ api_pc' = "done"
    /\ UNCHANGED <<payload, api_key, completion, fallback_error>>
    /\ UNCHANGED <<session, script, ghost, matcher>>

(***************************************************************************)
(* The "Generate Cards" button (frontend/app.py 247-265).  The handler     *)
(* runs in the script before the mode dispatch, so no widget of the quiz   *)
(* exists yet.  requests.post blocks the script until the backend has      *)
(* answered or the call has failed (timeout=60, no connection).  The       *)
(* backend keeps nothing between requests, so for the session the call is  *)
(* one step that gives the response of cards_generate.                     *)
(***************************************************************************)
NCards == 10        \* st.slider("Number of cards", 5, 30, 10)

\* cards_generate as a function of the request, the key and the remote
\* call: the response that CheckText, BasicOnly, TryAI and Fallback build
cards_generate(text, n, key, c) ==
    LET t == Strip(text)
        ai == generate_ai_cards(c, n)
        basic == generate_cards(t, n)
    IN  IF t = <<>> THEN HTTPException(400, <<"text is required.">>)
        ELSE IF ~key
        THEN IF basic = <<>>
             THEN HTTPException(422,
                     <<"Could not generate cards from the provided text.">>)
             ELSE GenerateResponse(basic, "basic", "No OPENAI_API_KEY set")
        ELSE IF ai.ok THEN GenerateResponse(ai.cards, "ai", None)
        ELSE IF basic = <<>>
        THEN HTTPException(500,
                <<"AI failed and fallback generator also failed: ",
                  ai.error>>)
        ELSE GenerateResponse(basic, "basic", ai.error)

\* the clicks: the text in the text area, whether the backend has the key,
\* and what its remote call does.  A blank text; a text of no card without
\* the key and with a remote call that fails; a text of one card.
Clicks ==
    {<<Text_spaces, FALSE, NoCompletion>>,
     <<Text_short, FALSE, NoCompletion>>,
     <<Text_short, TRUE, Completion("raise", <<>>)>>,
     <<Text_edge, FALSE, NoCompletion>>}

\* the response of the backend to each click
Posted ==
    [click \in Clicks |->
        cards_generate(click[1], NCards, click[2], click[3])]

\* cards[::-1]
Reverse(s) == [i \in 1..Len(s) |-> s[Len(s) + 1 - i]]

\* the click (247-257): a warning when the text is blank; else the POST,
\* which gives a response (in_time) or raises (the time is out, or the
\* backend is not reached) and then st.error (264-265)
ClickGenerate(click, in_time) ==
    /\ pc = "idle"
    /\ event' = [kind |-> "generate"]
    /\ widget_made' = FALSE
    /\ moved' = FALSE
    /\ nclear' = 0
    /\ IF Strip(click[1]) # <<>> /\ in_time
       THEN /\ pc' = "generate"
            /\ response' = Posted[click]
       ELSE /\ pc' = "render"
            /\ UNCHANGED response
    /\ UNCHANGED <<api_pc, payload, api_key, completion, fallback_error,
                   basic_cards>>
    /\ UNCHANGED <<session, idx, total, quiz_page, typed_for, dirty, skips,
                   outcomes, matcher>>

\* a handler that does not look at the status of the response
GenerateReturn_any_status(shuffle_opt) ==
    /\ pc = "generate"
    /\ LET deck == IF shuffle_opt THEN Reverse(response.cards)
                   ELSE response.cards
       IN  /\ load_deck_into_session(deck, widget_made)
           /\ outcomes' = 0
           /\ skips' = IF deck # <<>> THEN 0 ELSE -1
           /\ dirty' = (dirty \/ cards' # cards \/ quiz_idx' # quiz_idx)
           /\ UNCHANGED mode
    /\ pc' = "render"
    /\ response' = NoResponse
    /\ UNCHANGED <<api_pc, payload, api_key, completion, fallback_error,
                   basic_cards>>
    /\ UNCHANGED <<event, widget_made, idx, total, quiz_page, moved, nclear,
                   matcher>>

\* the response has come (258-263): raise_for_status, then the cards of the
\* response, reversed or not, become the deck; an error status is an
\* exception and st.error (264-265)
GenerateReturn(shuffle_opt) ==
    /\ pc = "generate"
    /\ IF response.status = 200
       THEN LET deck == IF shuffle_opt THEN Reverse(response.cards)
                        ELSE response.cards
            IN  /\ load_deck_into_session(deck, widget_made)
                /\ outcomes' = 0
                /\ skips' = IF deck # <<>> THEN 0 ELSE -1
                /\ dirty' = (dirty \/ cards' # cards \/ quiz_idx' # quiz_idx)
                /\ UNCHANGED mode
       ELSE UNCHANGED <<session, typed_for, dirty, skips, outcomes>>
    /\ pc' = "render"
    /\ response' = NoResponse
    /\ UNCHANGED <<api_pc, payload, api_key, completion, fallback_error,
                   basic_cards>>
    /\ UNCHANGED <<event, widget_made, idx, total, quiz_page, moved, nclear,
                   matcher>>

\* the session
Next ==
    \/ \E m \in {"study", "quiz"} : SelectMode(m)
    \/ \E d \in Decks : ClickLoad(d)
    \/ \E raw \in RawAnswers \cup {quiz_answer} : ClickCheck(raw)
    \/ ClickReset
    \/ move_prev
    \/ reveal
    \/ skip
    \/ move_next
    \/ RenderStudy
    \/ RenderQuizEmpty
    \/ RenderQuizHead
    \/ SubmitHandler
    \/ Controls
    \/ \E click \in Clicks, in_time \in BOOLEAN :
          ClickGenerate(click, in_time)
    \/ \E shuffle_opt \in BOOLEAN : GenerateReturn(shuffle_opt)

Spec == Init /\ [][Next]_vars

\* one request in the backend, step by step
InitGen == SessionInit /\ RequestInit /\ MatcherIdle

NextGen ==
    \/ CheckText
    \/ BasicOnly
    \/ TryAI
    \/ Fallback

SpecGen == InitGen /\ [][NextGen]_vars

\* the steps of the backend build the response of cards_generate
StepsAgree ==
    api_pc = "done" =>
        response = cards_generate(payload.text, payload.n, api_key,
                                  completion)

(***************************************************************************)
(* One call of is_correct (frontend/app.py 76-83).                         *)
(***************************************************************************)
CallInit ==
    /\ m_user \in MatchStrings
    /\ m_gold \in MatchStrings
    /\ m_verdict = "none"

Call ==
    /\ m_verdict = "none"
    /\ m_verdict' = IF is_correct(m_user, m_gold)
                    THEN "correct" ELSE "incorrect"
    /\ UNCHANGED <<m_user, m_gold>>
    /\ UNCHANGED <<session, script, ghost, backend>>

InitMatch == SessionInit /\ BackendIdle /\ CallInit

NextMatch == Call

SpecMatch == InitMatch /\ [][NextMatch]_vars

(***************************************************************************)
(* Properties.                                                             *)
(***************************************************************************)
Judged == pc = "submit" /\ event.kind = "submit"
LastEntry == quiz_history[Len(quiz_history)]

\* C1: when the render has built the form (the point at which the submitted
\* input is read), the position change has been detected, the clear flag is
\* consumed, the input was emptied exactly once if position or deck changed
\* since the previous render, and an answer still in the box was typed for
\* the card now judged.
C1_InputClearedOnMove ==
    pc = "submit" =>
        /\ quiz_last_idx = quiz_idx
        /\ ~quiz_clear
        /\ nclear <= 1
        /\ moved => (nclear = 1 /\ quiz_answer = <<>>)
        /\ quiz_answer # <<>> => typed_for = Ctx

\* the rerun after a correct answer on a deck of several cards: the typed
\* answer has been emptied for the next card
C1_Witness ==
    /\ pc = "submit"
    /\ event = NoEvent
    /\ moved
    /\ nclear = 1
    /\ Len(cards) >= 2
    /\ quiz_history # <<>>
    /\ LastEntry.result = "correct"

\* C2: a non-empty answer that is_correct accepts for the card at position
\* adds one to correct and seen, appends {position, "correct", answer},
\* moves position to (position + 1) mod len(deck), clears reveal and sets
\* the clear flag; on the one-card deck, "Capital" gives correct = 1,
\* seen = 1, position = 0.
C2_CorrectSubmit ==
    [][ /\ (Judged /\ Strip(quiz_answer) # <<>>
              /\ is_correct(quiz_answer, cards[quiz_idx + 1].a))
           => /\ quiz_correct' = quiz_correct + 1
              /\ quiz_seen' = quiz_seen + 1
              /\ quiz_history' = Append(quiz_history,
                    [i |-> quiz_idx, result |-> "correct",
                     user |-> quiz_answer])
              /\ quiz_idx' = (quiz_idx + 1) % Len(cards)
              /\ quiz_feedback' = "correct"
              /\ quiz_reveal' = FALSE
              /\ quiz_clear' = TRUE
        /\ (Judged /\ cards = Deck(1) /\ quiz_answer = Str_Capital
              /\ quiz_correct = 0 /\ quiz_seen = 0)
           => /\ quiz_correct' = 1
              /\ quiz_seen' = 1
              /\ quiz_idx' = 0 ]_vars

\* "Capital" has just been judged correct on the one-card deck
C2_Witness ==
    /\ pc = "render"
    /\ event = NoEvent
    /\ cards = Deck(1)
    /\ quiz_clear
    /\ quiz_correct = 1
    /\ quiz_seen = 1
    /\ quiz_idx = 0
    /\ quiz_history = <<[i |-> 0, result |-> "correct", user |-> Str_Capital]>>

\* C3: a non-empty answer that is_correct rejects appends {position,
\* attempt, answer} and sets feedback to "incorrect"; position, seen and
\* correct stay as they are.
C3_IncorrectSubmit ==
    [][ (Judged /\ Strip(quiz_answer) # <<>>
           /\ ~is_correct(quiz_answer, cards[quiz_idx + 1].a))
        => /\ quiz_history' = Append(quiz_history,
                 [i |-> quiz_idx, result |-> "attempt",
                  user |-> quiz_answer])
           /\ quiz_feedback' = "incorrect"
           /\ UNCHANGED <<quiz_idx, quiz_seen, quiz_correct>> ]_vars

\* a wrong answer has just been recorded on a card seen before
C3_Witness ==
    /\ pc = "controls"
    /\ event.kind = "submit"
    /\ quiz_feedback = "incorrect"
    /\ quiz_seen > 0
    /\ quiz_history # <<>>
    /\ LastEntry.result = "attempt"

\* C4: after load-deck of a non-empty deck and len(deck) skips, position is
\* 0, seen is len(deck) and correct is 0.
C4_SkipAround ==
    (cards # <<>> /\ skips = Len(cards))
        => (quiz_idx = 0 /\ quiz_seen = Len(cards) /\ quiz_correct = 0)

\* a deck of several cards has been skipped through once
C4_Witness ==
    /\ Len(cards) >= 2
    /\ skips = Len(cards)
    /\ pc = "idle"

\* C5: with a non-empty deck, 0 <= position < len(deck).
C5_PositionInDeck ==
    cards # <<>> => (0 <= quiz_idx /\ quiz_idx < Len(cards))

\* a shorter deck has been loaded while the session stood on the last card
\* of a longer one
C5_Witness ==
    /\ pc = "render"
    /\ event.kind = "load"
    /\ cards # <<>>
    /\ total > Len(cards)
    /\ idx = total - 1

\* C6: load-deck replaces the deck and reset keeps it, and both leave
\* position 0, seen 0, correct 0, an empty history, reveal false and no
\* feedback.
C6_LoadAndReset ==
    [][ ((pc = "idle" /\ event'.kind = "load")
          \/ (pc = "controls" /\ event.kind = "reset"))
        => /\ (event.kind = "reset" => cards' = cards)
           /\ quiz_idx' = 0
           /\ quiz_seen' = 0
           /\ quiz_correct' = 0
           /\ quiz_history' = <<>>
           /\ quiz_reveal' = FALSE
           /\ quiz_feedback' = "" ]_vars

\* C7: next and prev move position by one modulo len(deck), wrapping at
\* both ends; they clear reveal and feedback and leave seen, correct and
\* history as they are.
C7_NextPrev ==
    [][ /\ (pc = "idle" /\ event'.kind = "next")
           => /\ quiz_idx' = (quiz_idx + 1) % Len(cards)
              /\ (quiz_idx = Len(cards) - 1 => quiz_idx' = 0)
        /\ (pc = "idle" /\ event'.kind = "prev")
           => /\ quiz_idx' = (quiz_idx - 1) % Len(cards)
              /\ (quiz_idx = 0 => quiz_idx' = Len(cards) - 1)
        /\ (pc = "idle" /\ event'.kind \in {"next", "prev"})
           => /\ quiz_reveal' = FALSE
              /\ quiz_feedback' = ""
              /\ UNCHANGED <<quiz_seen, quiz_correct, quiz_history>> ]_vars

\* prev has just wrapped from the first card to the last of several
C7_Witness ==
    /\ pc = "render"
    /\ event.kind = "prev"
    /\ Len(cards) >= 2
    /\ quiz_last_idx = 0
    /\ quiz_idx = Len(cards) - 1

\* C8: reveal sets reveal and clears feedback, leaves seen, correct,
\* history and position as they are, and the render that follows keeps
\* reveal set.
C8_RevealShown ==
    [][ /\ (pc = "idle" /\ event'.kind = "reveal")
           => /\ quiz_reveal'
              /\ quiz_feedback' = ""
              /\ UNCHANGED <<quiz_seen, quiz_correct, quiz_history,
                             quiz_idx>>
        /\ (pc = "render" /\ event.kind = "reveal") => quiz_reveal' ]_vars

\* C9: an answer that trims to empty changes none of position, seen,
\* correct, history, reveal and feedback.
C9_EmptySubmit ==
    [][ (Judged /\ Strip(quiz_answer) = <<>>)
        => UNCHANGED <<quiz_idx, quiz_seen, quiz_correct, quiz_history,
                       quiz_reveal, quiz_feedback>> ]_vars

\* a blank answer has been sent while the banner of a wrong answer was up
C9_Witness ==
    /\ pc = "controls"
    /\ event.kind = "submit"
    /\ quiz_answer = Str_blank
    /\ quiz_feedback = "incorrect"

\* C10: the history is as long as the number of correct answers, wrong
\* attempts and skips since the last load-deck or reset.
C10_HistoryLength == Len(quiz_history) = outcomes

\* a full history holding a correct answer, an attempt and a skip
C10_Witness ==
    /\ Len(quiz_history) = MaxHistory
    /\ \A r \in {"correct", "attempt", "skip"} :
          \E k \in 1..Len(quiz_history) : quiz_history[k].result = r

\* the number of history entries whose result is in rs
Recorded(rs) ==
    Cardinality({k \in 1..Len(quiz_history) : quiz_history[k].result \in rs})

\* C11: 0 <= correct <= seen; seen is the number of correct answers and
\* skips recorded since the last load-deck or reset, correct the number of
\* correct answers; wrong attempts add to neither.
C11_CorrectWithinSeen ==
    /\ 0 <= quiz_correct
    /\ quiz_correct <= quiz_seen
    /\ quiz_seen = Recorded({"correct", "skip"})
    /\ quiz_correct = Recorded({"correct"})

\* a correct answer, a skip and a wrong attempt have been recorded
C11_Witness ==
    /\ quiz_seen = 2
    /\ quiz_correct = 1
    /\ Recorded({"attempt"}) = 1

(***************************************************************************)
(* Properties of the backend, under SpecGen.                               *)
(***************************************************************************)
\* the request is valid (n is in range by construction) and was answered
Answered == api_pc = "done" /\ Strip(payload.text) # <<>>

\* the basic generator was called for a valid request and has returned
BasicRan == Answered /\ (~api_key \/ fallback_error # None)

\* w is what _WORD matches: a letter, then 3 or more word characters
IsWord(w) ==
    /\ Len(w) >= 4
    /\ w[1] \in LetterChars
    /\ \A j \in 2..Len(w) : w[j] \in WordChars

\* some word of 4 characters starts in s
HasCandidate(s) ==
    \E i \in 1..(Len(s) - 3) : IsWord(SubSeq(s, i, i + 3))

\* w occurs in s
IsSubstring(w, s) ==
    \E p \in 0..(Len(s) - Len(w)) : Slice(s, p, p + Len(w)) = w

\* the retained sentences of the request, and those with a candidate word
Retained == _split_sentences(Strip(payload.text))
WithWord == SelectSeq(Retained, HasCandidate)

\* an item the AI normalisation keeps
IsUsable(item) == item.dict /\ item.q.t = "str" /\ item.a.t = "str"

\* the AI attempt succeeds: the completion has a list with a usable item
AiSucceeds ==
    /\ completion.kind = "list"
    /\ \E k \in 1..Len(completion.items) : IsUsable(completion.items[k])

\* the error text of each way the AI attempt fails
AiErrorText ==
    CASE completion.kind = "raise" -> "Connection error."
      [] completion.kind = "not json" -> "Failed to parse AI JSON"
      [] completion.kind = "not object" ->
            "'list' object has no attribute 'get'"
      [] completion.kind = "no list" ->
            "AI response did not contain a 'cards' list"
      [] OTHER -> "AI returned no usable flashcards"

\* C12: with the key set the AI is attempted.  When it succeeds the result
\* has mode "ai", the first n usable items as cards and no fallback_error.
\* When it fails in any way the basic generator is called, and if it makes
\* cards the result has mode "basic", those cards, and the text of the AI
\* error as fallback_error.
C12_AiThenFallback ==
    api_key =>
      /\ api_pc # "basic"
      /\ Answered =>
           IF AiSucceeds
           THEN /\ response.status = 200
                /\ response.mode = "ai"
                /\ response.fallback_error = None
                /\ response.cards # <<>>
                /\ Len(response.cards) <= payload.n
                /\ fallback_error = None
           ELSE /\ fallback_error = AiErrorText
                /\ WithWord # <<>> =>
                     /\ response.status = 200
                     /\ response.mode = "basic"
                     /\ response.fallback_error = AiErrorText
                     /\ response.cards = basic_cards

\* the AI returned a list without a usable item and the fallback made cards
C12_Witness ==
    /\ Answered
    /\ api_key
    /\ completion.kind = "list"
    /\ response.mode = "basic"
    /\ response.fallback_error = "AI returned no usable flashcards"
    /\ Len(response.cards) = 2

\* C13, as claimed: without the key every valid request gets a result with
\* mode "basic" and the unavailability message.
C13_AlwaysBasicResult ==
    Answered /\ ~api_key =>
      /\ response.status = 200
      /\ response.mode = "basic"
      /\ response.fallback_error = "No OPENAI_API_KEY set"

\* C13, amended: without the key no AI attempt is made and the basic
\* generator is called; if the text has a retained sentence with a candidate
\* word the result has mode "basic", the cards made and the unavailability
\* message, and if it has none the request fails with status 422 and no
\* result.
C13_BasicWhenNoKey ==
    ~api_key =>
      /\ api_pc \notin {"ai", "fallback"}
      /\ fallback_error = None
      /\ Answered =>
           IF WithWord # <<>>
           THEN /\ response.status = 200
                /\ response.mode = "basic"
                /\ response.fallback_error = "No OPENAI_API_KEY set"
                /\ response.cards = basic_cards
                /\ basic_cards # <<>>
           ELSE /\ response.status = 422
                /\ response.cards = <<>>
                /\ response.mode = None

\* without the key, a result of two cards
C13_Witness ==
    /\ Answered
    /\ ~api_key
    /\ response.status = 200
    /\ Len(response.cards) = 2

\* C14, as claimed: a valid request fails only after a failed AI attempt
\* whose fallback made no card.
C14_FailsOnlyAfterAi ==
    Answered /\ response.status # 200 =>
      /\ api_key
      /\ fallback_error # None
      /\ basic_cards = <<>>
      /\ response.detail[Len(response.detail)] = fallback_error

\* C14, amended: a valid request fails exactly when the basic generator was
\* called and made no card, the text having no retained sentence with a
\* candidate word: after a failed AI attempt (status 500, carrying the text
\* of the AI error) or, without the key, with no AI attempt (status 422, no
\* AI error).  Every other valid request gets a result.
C14_FailsWhenNoCard ==
    Answered =>
      /\ response.status \in {200, 422, 500}
      /\ response.status # 200 <=>
           /\ ~(api_key /\ AiSucceeds)
           /\ WithWord = <<>>
      /\ response.status = 500 <=>
           /\ api_key
           /\ ~AiSucceeds
           /\ WithWord = <<>>
      /\ response.status = 500 =>
           response.detail[Len(response.detail)] = AiErrorText
      /\ response.status = 422 => fallback_error = None
      /\ response.status = 200 => response.cards # <<>>

\* the AI attempt failed, the fallback made no card, the failure carries
\* the AI error
C14_Witness ==
    /\ Answered
    /\ response.status = 500
    /\ response.detail[Len(response.detail)]
         = "AI returned no usable flashcards"

\* C15: every card of every result has a question and an answer that are
\* not empty after trimming.
C15_CardsNotEmpty ==
    Answered /\ response.status = 200 =>
      \A k \in 1..Len(response.cards) :
          /\ Strip(response.cards[k].q) # <<>>
          /\ Strip(response.cards[k].a) # <<>>

\* C17: generate_cards(text, n) with n >= 1 returns at most n cards: one for
\* each of the first retained sentences that have a candidate word, in
\* order, so that a sentence without one does not count toward n.  Every
\* retained sentence is a part of the cleaned text with 20 to 240
\* characters, and every answer is a word of the pattern that occurs in the
\* sentence of its card.
C17_BasicCards ==
    BasicRan =>
      /\ Len(basic_cards) <= payload.n
      /\ Len(basic_cards) = IF payload.n < Len(WithWord)
                            THEN payload.n ELSE Len(WithWord)
      /\ \A k \in 1..Len(Retained) :
            /\ 20 <= Len(Retained[k])
            /\ Len(Retained[k]) <= 240
            /\ IsSubstring(Retained[k], _clean(payload.text))
      /\ \A k \in 1..Len(basic_cards) :
            /\ IsWord(basic_cards[k].a)
            /\ IsSubstring(basic_cards[k].a, WithWord[k])

\* the first sentence has no candidate word and n = 1: the card is made of
\* the second sentence
C17_Witness ==
    /\ BasicRan
    /\ payload.text = Text_nowords
    /\ payload.n = 1
    /\ Len(basic_cards) = 1

\* the word chosen for the sentence of card k, and its offset
Chosen(k) == _pick_mask_word(WithWord[k])

C16_LoadValidates ==
    [][pc = "idle" /\ event'.kind = "load" =>
         /\ \A k \in 1..Len(cards') : Strip(cards'[k].a) # <<>>
         /\ cards' = <<>> => cards = <<>>]_vars

(***************************************************************************)
(* Properties of is_correct, under SpecMatch.                              *)
(***************************************************************************)
\* C19, as claimed: is_correct(x, x) for every x that is not empty.
C19_SameNonEmpty ==
    m_verdict # "none" /\ m_user = m_gold /\ m_user # <<>> =>
        m_verdict = "correct"

\* C19, amended: is_correct(x, x) is true for every x that is not empty
\* after trimming and false for the other x; is_correct("", g) is false
\* for every g.
C19_SameAndEmpty ==
    m_verdict # "none" =>
      /\ m_user = m_gold =>
           m_verdict = IF Strip(m_user) # <<>> THEN "correct"
                       ELSE "incorrect"
      /\ m_user = <<>> => m_verdict = "incorrect"

\* "!" was judged against itself: it is not empty after trimming, and
\* normalises to one space
C19_Witness ==
    /\ m_verdict = "correct"
    /\ m_user = Str_bang
    /\ m_gold = Str_bang

\* C20: with a normalised gold of fewer than 5 characters an answer is
\* correct only if the normalised strings are equal; an answer whose
\* normalised string differs from the gold's is correct only if the
\* normalised gold has 5 or more characters and the ratio is at least 0.87.
\* "cat" for "bat", "catss" for "cats" (ratio 8/9) and "capitol" for
\* "capital" (ratio 6/7) are incorrect, "pithagoras" for "pythagoras"
\* (ratio 9/10) is correct.
C20_ShortGoldExact ==
    m_verdict # "none" =>
      LET u == _normalize(m_user)
          g == _normalize(m_gold)
      IN  /\ m_verdict = "correct" /\ Len(g) < 5 => u = g
          /\ m_verdict = "correct" /\ u # g =>
                /\ Len(g) >= 5
                /\ 100 * 2 * MatchingSize(u, g) >= 87 * (Len(u) + Len(g))
          /\ m_user = Str_cat /\ m_gold = Str_bat => m_verdict = "incorrect"
          /\ m_user = Str_catss /\ m_gold = Str_cats =>
                m_verdict = "incorrect"
          /\ m_user = Str_capitol /\ m_gold = Str_capital =>
                m_verdict = "incorrect"
          /\ m_user = Str_pithagoras /\ m_gold = Str_pythagoras =>
                m_verdict = "correct"

\* a near miss of a gold of 4 characters was judged
C20_Witness ==
    /\ m_verdict = "incorrect"
    /\ m_user = Str_catss
    /\ m_gold = Str_cats

(***************************************************************************)
(* Properties of the render after a correct answer, under Spec.            *)
(***************************************************************************)
\* the script runs again because of st.rerun() after a correct answer, and
\* has reached the feedback banner; no other run is without an event
RerunAtBanner ==
    /\ pc = "controls"
    /\ event = NoEvent
    /\ quiz_history # <<>>
    /\ LastEntry.result = "correct"

\* C21: in the run that follows a correct answer, feedback is "correct" when
\* the banner is reached and on the page the run leaves, for a deck of any
\* length.
C21_BannerAfterCorrect == RerunAtBanner => quiz_feedback = "correct"

(***************************************************************************)
(* Properties of the "Generate Cards" button, under Spec.                  *)
(***************************************************************************)
\* C22: in a run started by "Generate Cards", deck, position, seen, correct
\* and history change in one step only, the one that handles a response of
\* status 200: it makes the cards of the response the deck and resets the
\* quiz.  A blank text, a call that raises, and a response with an error
\* status (422 when the basic generator makes no card, 500 when the AI and
\* the fallback are exhausted) leave the five as they were.
C22_FailedGenerationKeepsSession ==
    [][event.kind = "generate" \/ event'.kind = "generate" =>
         IF pc = "generate" /\ response.status = 200
         THEN /\ cards' \in {response.cards, Reverse(response.cards)}
              /\ cards' # <<>>
              /\ quiz_idx' = 0
              /\ quiz_seen' = 0
              /\ quiz_correct' = 0
              /\ quiz_history' = <<>>
         ELSE /\ pc = "generate" => response.status \in {422, 500}
              /\ UNCHANGED <<cards, quiz_idx, quiz_seen, quiz_correct,
                             quiz_history>>]_vars

\* a request has failed in the middle of a quiz and the handler is over:
\* the session is at the second card of its deck of two, with one card seen
\* and two entries in the history
C22_Witness ==
    /\ pc = "render"
    /\ event.kind = "generate"
    /\ Len(cards) = 2
    /\ quiz_idx = 1
    /\ quiz_seen = 1
    /\ Len(quiz_history) = 2

=============================================================================
